---------------------------- MODULE Spec2Model ----------------------------
(***************************************************************************)
(* A model of the WebSocket server of src/main.rs: the frame codec         *)
(* (Opcode, Frame::new, Frame::to_bytes, From<&[u8]> for Frame), echo, and *)
(* the accept / read / dispatch loop of main.                              *)
(*                                                                         *)
(* Two specifications share the variables.  SpecCodec drives the pure      *)
(* codec functions over a bounded set of frames and raw buffers.  Spec is  *)
(* the server: one sequential process whose position is pc.                *)
(*                                                                         *)
(* A Rust panic (unwrap on None or Err, an index out of range, panic!,     *)
(* todo!) is modelled as the value Panic for a function and as             *)
(* pc = "aborted" for the process.                                         *)
(***************************************************************************)
EXTENDS Integers, Sequences, FiniteSets, TLC

(***************************************************************************)
(* Bounds of the model.                                                    *)
(***************************************************************************)
\* longest payload of the exhaustively enumerated frames of SpecCodec
MaxLen == 2
\* length of main's read buffer; the source's buffer has 4096 bytes
BufSize == 72
\* reads served on one connection before the transport fails
MaxReads == 3

(***************************************************************************)
(* Bytes, Option and panics.                                               *)
(***************************************************************************)
Byte == 0..255

None == <<>>
Some(x) == <<x>>
unwrap(o) == o[1]

Panic == [panic |-> TRUE]
Ok(v) == [panic |-> FALSE, val |-> v]

\* bit k of n
Bit(n, k) == (n \div (2 ^ k)) % 2

\* a ^ b on u8
XorU8(a, b) ==
    LET x(k) == ((Bit(a, k) + Bit(b, k)) % 2) * (2 ^ k)
    IN  x(0) + x(1) + x(2) + x(3) + x(4) + x(5) + x(6) + x(7)

\* the same, tabulated once
XorTable == [a \in Byte |-> [b \in Byte |-> XorU8(a, b)]]

Xor(a, b) == XorTable[a][b]

\* (b as u8) for a bool
BoolU8(b) == IF b THEN 1 ELSE 0

\* buffer[k], with Rust's indices from 0
At(buffer, k) == buffer[k + 1]

\* buffer[a..b], with Rust's indices from 0
Slice(buffer, a, b) == SubSeq(buffer, a + 1, b)

(***************************************************************************)
(* Opcode.                                                                 *)
(***************************************************************************)
Opcode == {"Continuation", "Text", "Binary", "Close", "Ping", "Pong"}

\* a decoder that takes an unknown nibble for Continuation
OpcodeFromU8Lenient(byte) ==
    LET n == byte % 16
    IN  CASE n = 1  -> "Text"
          [] n = 2  -> "Binary"
          [] n = 8  -> "Close"
          [] n = 9  -> "Ping"
          [] n = 10 -> "Pong"
          [] OTHER  -> "Continuation"

\* impl From<u8> for Opcode; "panic" for panic!("Invalid opcode")
OpcodeFromU8(byte) ==
    LET n == byte % 16
    IN  CASE n = 0  -> "Continuation"
          [] n = 1  -> "Text"
          [] n = 2  -> "Binary"
          [] n = 8  -> "Close"
          [] n = 9  -> "Ping"
          [] n = 10 -> "Pong"
          [] OTHER  -> "panic"

\* impl From<Opcode> for u8
U8FromOpcode(opcode) ==
    CASE opcode = "Continuation" -> 0
      [] opcode = "Text"         -> 1
      [] opcode = "Binary"       -> 2
      [] opcode = "Close"        -> 8
      [] opcode = "Ping"         -> 9
      [] opcode = "Pong"         -> 10

(***************************************************************************)
(* Frame.                                                                  *)
(***************************************************************************)
\* a constructor that leaves fin unset
FrameNewNotFin(opcode, payload) ==
    LET p == IF payload = None THEN <<>> ELSE unwrap(payload)
    IN  [fin |-> FALSE, rsv1 |-> FALSE, rsv2 |-> FALSE, rsv3 |-> FALSE,
         opcode |-> opcode, mask |-> FALSE, payload_len |-> Len(p),
         masking_key |-> None, payload |-> p]

\* Frame::new(opcode, payload); payload is an Option<Vec<u8>>
FrameNew(opcode, payload) ==
    LET p == IF payload = None THEN <<>> ELSE unwrap(payload)
    IN  [fin |-> TRUE, rsv1 |-> FALSE, rsv2 |-> FALSE, rsv3 |-> FALSE,
         opcode |-> opcode, mask |-> FALSE, payload_len |-> Len(p),
         masking_key |-> None, payload |-> p]

\* (n as u16).to_be_bytes()
U16BE(n) == << ((n % 65536) \div 256), (n % 256) >>

\* (n as u64).to_be_bytes(); the model's lengths are below 2^31
U64BE(n) ==
    << 0, 0, 0, 0, (n \div 16777216) % 256, (n \div 65536) % 256,
       (n \div 256) % 256, n % 256 >>

\* first byte of to_bytes
HeaderByte(self) ==
    BoolU8(self.fin) * 128 + BoolU8(self.rsv1) * 64 + BoolU8(self.rsv2) * 32
        + BoolU8(self.rsv3) * 16 + U8FromOpcode(self.opcode)

\* a length field whose first threshold is off by one
LengthFieldOffByOne(self) ==
    IF self.payload_len <= 126
    THEN << BoolU8(self.mask) * 128 + (self.payload_len % 256) >>
    ELSE IF self.payload_len < 65536
    THEN << BoolU8(self.mask) * 128 + 126 >> \o U16BE(self.payload_len)
    ELSE << BoolU8(self.mask) * 128 + 127 >> \o U64BE(self.payload_len)

\* to_bytes: the mask bit, the 7-bit length and the extended length
LengthField(self) ==
    IF self.payload_len < 126
    THEN << BoolU8(self.mask) * 128 + (self.payload_len % 256) >>
    ELSE IF self.payload_len < 65536
    THEN << BoolU8(self.mask) * 128 + 126 >> \o U16BE(self.payload_len)
    ELSE << BoolU8(self.mask) * 128 + 127 >> \o U64BE(self.payload_len)

\* a masking loop that starts at the key's second byte
PayloadBytesShifted(self) ==
    [i \in 1..Len(self.payload) |->
        IF self.mask
        THEN Xor(self.payload[i], At(unwrap(self.masking_key), i % 4))
        ELSE self.payload[i]]

\* to_bytes: the loop over the payload
PayloadBytes(self) ==
    [i \in 1..Len(self.payload) |->
        IF self.mask
        THEN Xor(self.payload[i], At(unwrap(self.masking_key), (i - 1) % 4))
        ELSE self.payload[i]]

\* an encoding closed by a delimiter byte
ToBytesDelimited(self) ==
    IF self.mask /\ self.masking_key = None
    THEN Panic
    ELSE Ok(<< HeaderByte(self) >> \o LengthField(self)
            \o (IF self.mask THEN unwrap(self.masking_key) ELSE <<>>)
            \o PayloadBytes(self) \o << 0 >>)

\* Frame::to_bytes; masking_key.unwrap() panics on None when mask is set
to_bytes(self) ==
    IF self.mask /\ self.masking_key = None
    THEN Panic
    ELSE Ok(<< HeaderByte(self) >> \o LengthField(self)
            \o (IF self.mask THEN unwrap(self.masking_key) ELSE <<>>)
            \o PayloadBytes(self))

\* usize::from_be_bytes of 8 bytes; -1 stands for a value of 2^31 or more,
\* which no buffer of the model can hold
UsizeFromBE(b) ==
    IF b[1] # 0 \/ b[2] # 0 \/ b[3] # 0 \/ b[4] # 0 \/ b[5] >= 128
    THEN -1
    ELSE b[5] * 16777216 + b[6] * 65536 + b[7] * 256 + b[8]

\* From<&[u8]>: (payload_len, i) read from the length field, Panic when an
\* index is out of range
DecodeLength(buffer) ==
    LET n == At(buffer, 1) % 128
    IN  IF n = 126
        THEN IF Len(buffer) < 4 THEN Panic
             ELSE Ok([payload_len |-> At(buffer, 2) * 256 + At(buffer, 3), i |-> 4])
        ELSE IF n = 127
        THEN IF Len(buffer) < 10 THEN Panic
             ELSE Ok([payload_len |-> UsizeFromBE(Slice(buffer, 2, 10)), i |-> 10])
        ELSE Ok([payload_len |-> n, i |-> 2])

\* an unmasking that does not wrap around the key at its fourth byte
DecodePayloadNoWrap(bytes, mask, masking_key) ==
    [j \in 1..Len(bytes) |->
        IF mask THEN Xor(bytes[j], At(unwrap(masking_key), (j - 1) % 3))
        ELSE bytes[j]]

\* From<&[u8]>: the unmasking of buffer[i..i + payload_len]
DecodePayload(bytes, mask, masking_key) ==
    [j \in 1..Len(bytes) |->
        IF mask THEN Xor(bytes[j], At(unwrap(masking_key), (j - 1) % 4))
        ELSE bytes[j]]

\* a decode that takes what payload the buffer has when it is shorter than
\* the declared length
FrameFromClamped(buffer) ==
    IF Len(buffer) < 1 THEN Panic
    ELSE IF OpcodeFromU8(At(buffer, 0)) = "panic" THEN Panic
    ELSE IF Len(buffer) < 2 THEN Panic
    ELSE
      LET b0 == At(buffer, 0)
          mask == At(buffer, 1) >= 128
          len == DecodeLength(buffer)
      IN  IF len.panic THEN Panic
          ELSE
            LET payload_len == len.val.payload_len
                i0 == len.val.i
                i == IF mask THEN i0 + 4 ELSE i0
                end == IF Len(buffer) < i + payload_len THEN Len(buffer)
                       ELSE i + payload_len
            IN  IF mask /\ Len(buffer) < i0 + 4 THEN Panic
                ELSE IF payload_len < 0 \/ Len(buffer) < i THEN Panic
                ELSE
                  LET masking_key == IF mask THEN Some(Slice(buffer, i0, i0 + 4))
                                     ELSE None
                  IN  Ok([fin |-> Bit(b0, 7) = 1, rsv1 |-> Bit(b0, 6) = 1,
                          rsv2 |-> Bit(b0, 5) = 1, rsv3 |-> Bit(b0, 4) = 1,
                          opcode |-> OpcodeFromU8(b0), mask |-> mask,
                          payload_len |-> payload_len,
                          masking_key |-> masking_key,
                          payload |-> DecodePayload(Slice(buffer, i, end),
                                                    mask, masking_key)])

\* a decode that takes the rest of the buffer as the payload
FrameFromRest(buffer) ==
    IF Len(buffer) < 1 THEN Panic
    ELSE IF OpcodeFromU8(At(buffer, 0)) = "panic" THEN Panic
    ELSE IF Len(buffer) < 2 THEN Panic
    ELSE
      LET b0 == At(buffer, 0)
          mask == At(buffer, 1) >= 128
          len == DecodeLength(buffer)
      IN  IF len.panic THEN Panic
          ELSE
            LET payload_len == len.val.payload_len
                i0 == len.val.i
                i == IF mask THEN i0 + 4 ELSE i0
            IN  IF mask /\ Len(buffer) < i0 + 4 THEN Panic
                ELSE IF payload_len < 0 \/ Len(buffer) < i + payload_len THEN Panic
                ELSE
                  LET masking_key == IF mask THEN Some(Slice(buffer, i0, i0 + 4))
                                     ELSE None
                  IN  Ok([fin |-> Bit(b0, 7) = 1, rsv1 |-> Bit(b0, 6) = 1,
                          rsv2 |-> Bit(b0, 5) = 1, rsv3 |-> Bit(b0, 4) = 1,
                          opcode |-> OpcodeFromU8(b0), mask |-> mask,
                          payload_len |-> payload_len,
                          masking_key |-> masking_key,
                          payload |-> DecodePayload(Slice(buffer, i, Len(buffer)),
                                                    mask, masking_key)])

\* impl From<&[u8]> for Frame
FrameFrom(buffer) ==
    IF Len(buffer) < 1 THEN Panic
    ELSE IF OpcodeFromU8(At(buffer, 0)) = "panic" THEN Panic
    ELSE IF Len(buffer) < 2 THEN Panic
    ELSE
      LET b0 == At(buffer, 0)
          mask == At(buffer, 1) >= 128
          len == DecodeLength(buffer)
      IN  IF len.panic THEN Panic
          ELSE
            LET payload_len == len.val.payload_len
                i0 == len.val.i
                i == IF mask THEN i0 + 4 ELSE i0
            IN  IF mask /\ Len(buffer) < i0 + 4 THEN Panic
                ELSE IF payload_len < 0 \/ Len(buffer) < i + payload_len THEN Panic
                ELSE
                  LET masking_key == IF mask THEN Some(Slice(buffer, i0, i0 + 4))
                                     ELSE None
                  IN  Ok([fin |-> Bit(b0, 7) = 1, rsv1 |-> Bit(b0, 6) = 1,
                          rsv2 |-> Bit(b0, 5) = 1, rsv3 |-> Bit(b0, 4) = 1,
                          opcode |-> OpcodeFromU8(b0), mask |-> mask,
                          payload_len |-> payload_len,
                          masking_key |-> masking_key,
                          payload |-> DecodePayload(Slice(buffer, i, i + payload_len),
                                                    mask, masking_key)])

\* echo
echo(payload) == payload \o << 32, 40, 101, 99, 104, 111, 101, 100, 41 >>


(***************************************************************************)
(* The handshake: main's parsing of the upgrade request (lines 302-363).   *)
(* Text is a sequence of character codes.                                  *)
(***************************************************************************)
\* String::from_utf8_lossy: an ASCII byte is its character; a byte of 0x80
\* or more is no ASCII character, here U+FFFD
from_utf8_lossy(buffer) ==
    [i \in 1..Len(buffer) |-> IF buffer[i] < 128 THEN buffer[i] ELSE 65533]

\* index of the first c in text at or after position from, 0 when none
IndexOf(text, c, from) ==
    LET found == {i \in from..Len(text) : text[i] = c}
    IN  IF found = {} THEN 0
        ELSE CHOOSE i \in found : \A j \in found : i <= j

\* str::lines: split at "\n", a "\r" before the "\n" dropped, no line for
\* the empty rest after a final "\n"
RECURSIVE lines(_)
lines(text) ==
    IF text = <<>> THEN <<>>
    ELSE LET e == IndexOf(text, 10, 1)
         IN  IF e = 0 THEN << text >>
             ELSE LET l == SubSeq(text, 1, e - 1)
                      line == IF Len(l) > 0 /\ l[Len(l)] = 13
                              THEN SubSeq(l, 1, Len(l) - 1) ELSE l
                  IN  << line >> \o lines(SubSeq(text, e + 1, Len(text)))

\* str::split(sep), collected
RECURSIVE split(_, _)
split(text, sep) ==
    LET e == IndexOf(text, sep, 1)
    IN  IF e = 0 THEN << text >>
        ELSE << SubSeq(text, 1, e - 1) >> \o split(SubSeq(text, e + 1, Len(text)), sep)

\* char::is_whitespace on the ASCII range
IsWhitespace(c) == c \in {9, 10, 11, 12, 13, 32}

\* str::trim
RECURSIVE trim(_)
trim(text) ==
    IF text = <<>> THEN text
    ELSE IF IsWhitespace(text[1]) THEN trim(Tail(text))
    ELSE IF IsWhitespace(text[Len(text)]) THEN trim(SubSeq(text, 1, Len(text) - 1))
    ELSE text

\* str::to_ascii_lowercase
to_ascii_lowercase(text) ==
    [i \in 1..Len(text) |-> IF text[i] \in 65..90 THEN text[i] + 32 ELSE text[i]]

\* "upgrade"
StrUpgrade ==
    << 117, 112, 103, 114, 97, 100, 101 >>

\* "connection"
StrConnection ==
    << 99, 111, 110, 110, 101, 99, 116, 105, 111, 110 >>

\* "sec-websocket-version"
StrSecWebsocketVersion ==
    << 115, 101, 99, 45, 119, 101, 98, 115, 111, 99, 107, 101, 116, 45,
       118, 101, 114, 115, 105, 111, 110 >>

\* "sec-websocket-key"
StrSecWebsocketKey ==
    << 115, 101, 99, 45, 119, 101, 98, 115, 111, 99, 107, 101, 116, 45,
       107, 101, 121 >>

\* the five Options before the loop over the lines
NoHeaders ==
    [method |-> None, upgrade |-> None, connection |-> None,
     sec_websocket_version |-> None, sec_websocket_key |-> None]

\* a header line whose name is compared as written, not in lower case
HeaderLineCaseSensitive(h, line) ==
    LET values == [k \in 1..Len(split(line, 58)) |-> trim(split(line, 58)[k])]
    IN  IF Len(values) < 2 THEN Panic
        ELSE LET key == At(values, 0)
                 value == At(values, 1)
             IN  Ok([h EXCEPT
                      !.upgrade = IF key = StrUpgrade THEN Some(value) ELSE @,
                      !.connection = IF key = StrConnection THEN Some(value) ELSE @,
                      !.sec_websocket_version =
                          IF key = StrSecWebsocketVersion THEN Some(value) ELSE @,
                      !.sec_websocket_key =
                          IF key = StrSecWebsocketKey THEN Some(value) ELSE @])

\* one header line: the body of the loop for i > 0 and line # ""
HeaderLine(h, line) ==
    LET values == [k \in 1..Len(split(line, 58)) |-> trim(split(line, 58)[k])]
    IN  IF Len(values) < 2 THEN Panic
        ELSE LET key == to_ascii_lowercase(At(values, 0))
                 value == At(values, 1)
             IN  Ok([h EXCEPT
                      !.upgrade = IF key = StrUpgrade THEN Some(value) ELSE @,
                      !.connection = IF key = StrConnection THEN Some(value) ELSE @,
                      !.sec_websocket_version =
                          IF key = StrSecWebsocketVersion THEN Some(value) ELSE @,
                      !.sec_websocket_key =
                          IF key = StrSecWebsocketKey THEN Some(value) ELSE @])

\* the loop over request_text.lines().enumerate(), from line i (from 0)
RECURSIVE ParseLines(_, _, _)
ParseLines(ls, i, h) ==
    IF i >= Len(ls) THEN Ok(h)
    ELSE IF i = 0
    THEN LET values == [k \in 1..Len(split(At(ls, 0), 32)) |->
                            trim(split(At(ls, 0), 32)[k])]
         IN  ParseLines(ls, 1, [h EXCEPT !.method = Some(At(values, 0))])
    ELSE IF At(ls, i) = <<>> THEN Ok(h)
    ELSE LET r == HeaderLine(h, At(ls, i))
         IN  IF r.panic THEN Panic ELSE ParseLines(ls, i + 1, r.val)

\* the parse of the whole buffer
ParseRequest(buffer) == ParseLines(lines(from_utf8_lossy(buffer)), 0, NoHeaders)

\* "258EAFA5-E914-47DA-95CA-C5AB0DC85B11"
rfc_defined_uuid ==
    << 50, 53, 56, 69, 65, 70, 65, 53, 45, 69, 57, 49, 52, 45, 52, 55, 68,
       65, 45, 57, 53, 67, 65, 45, 67, 53, 65, 66, 48, 68, 67, 56, 53, 66,
       49, 49 >>

\* the key of the RFC's example (line 19): "dGhlIHNhbXBsZSBub25jZQ=="
KeyRfc ==
    << 100, 71, 104, 108, 73, 72, 78, 104, 98, 88, 66, 115, 90, 83, 66,
       117, 98, 50, 53, 106, 90, 81, 61, 61 >>

\* the key of the request in main's comment (line 293): "9Kl3Zz3tA0ibMWQwyn/9kQ=="
KeyDoc ==
    << 57, 75, 108, 51, 90, 122, 51, 116, 65, 48, 105, 98, 77, 87, 81, 119,
       121, 110, 47, 57, 107, 81, 61, 61 >>

\* ---- SHA-1 (FIPS 180-4) on byte sequences, as the sha1 crate computes it.
\* A 32-bit word is a pair << high 16 bits, low 16 bits >>.
Xor16(a, b) == Xor(a \div 256, b \div 256) * 256 + Xor(a % 256, b % 256)

And16(a, b) == (a + b - Xor16(a, b)) \div 2

Or16(a, b) == a + b - And16(a, b)

WXor(x, y) == << Xor16(x[1], y[1]), Xor16(x[2], y[2]) >>

WAnd(x, y) == << And16(x[1], y[1]), And16(x[2], y[2]) >>

WOr(x, y) == << Or16(x[1], y[1]), Or16(x[2], y[2]) >>

WNot(x) == << 65535 - x[1], 65535 - x[2] >>

\* addition modulo 2^32
WAdd(x, y) ==
    LET lo == x[2] + y[2]
    IN  << (x[1] + y[1] + (lo \div 65536)) % 65536, lo % 65536 >>

\* rotate left by n bits, 0 < n < 32
Rotl(x, n) ==
    LET w == IF n >= 16 THEN << x[2], x[1] >> ELSE x
        k == n % 16
        p == 2 ^ k
        q == 2 ^ (16 - k)
    IN  IF k = 0 THEN w
        ELSE << ((w[1] * p) % 65536) + (w[2] \div q),
                ((w[2] * p) % 65536) + (w[1] \div q) >>

\* the message followed by 0x80, zeros, and its length in bits on 64 bits
Sha1Pad(msg) ==
    msg \o << 128 >>
        \o [k \in 1..((64 - ((Len(msg) + 9) % 64)) % 64) |-> 0]
        \o U64BE(8 * Len(msg))

\* the 16 big-endian words of the 64-byte block starting at offset o
BlockWords(bytes, o) ==
    [j \in 1..16 |->
        << bytes[o + 4 * j - 3] * 256 + bytes[o + 4 * j - 2],
           bytes[o + 4 * j - 1] * 256 + bytes[o + 4 * j] >>]

RECURSIVE Schedule(_, _)
\* the message schedule: w extended by n words, each from the 16 before it
\* (n is halved to keep the evaluation shallow)
Schedule(w, n) ==
    IF n = 0 THEN w
    ELSE IF n = 1 THEN
        LET t == Len(w) + 1
            x == WXor(WXor(w[t - 3], w[t - 8]), WXor(w[t - 14], w[t - 16]))
        IN  Append(w, Rotl(x, 1))
    ELSE LET half == Schedule(w, n \div 2)
         IN  \* Len has the first half computed before the second starts
             IF Len(half) > 0 THEN Schedule(half, n - (n \div 2)) ELSE half

Sha1F(t, b, c, d) ==
    IF t < 20 THEN WOr(WAnd(b, c), WAnd(WNot(b), d))
    ELSE IF t < 40 THEN WXor(WXor(b, c), d)
    ELSE IF t < 60 THEN WOr(WOr(WAnd(b, c), WAnd(b, d)), WAnd(c, d))
    ELSE WXor(WXor(b, c), d)

Sha1K(t) ==
    IF t < 20 THEN << 23170, 31129 >>
    ELSE IF t < 40 THEN << 28377, 60321 >>
    ELSE IF t < 60 THEN << 36635, 48348 >>
    ELSE << 51810, 49622 >>

\* round t on the working variables s = << a, b, c, d, e >>
Sha1Round(s, w, t) ==
    LET temp == WAdd(WAdd(WAdd(WAdd(Rotl(s[1], 5),
                                    Sha1F(t, s[2], s[3], s[4])),
                               s[5]),
                          Sha1K(t)),
                     w[t + 1])
    IN  << temp, s[1], Rotl(s[2], 30), s[3], s[4] >>

RECURSIVE Sha1Rounds(_, _, _, _)
\* the n rounds t .. t+n-1 (n is halved to keep the evaluation shallow)
Sha1Rounds(s, w, t, n) ==
    IF n = 1 THEN Sha1Round(s, w, t)
    ELSE LET half == Sha1Rounds(s, w, t, n \div 2)
         IN  \* Len has the first half computed before the second starts
             IF Len(half) = 5
             THEN Sha1Rounds(half, w, t + (n \div 2), n - (n \div 2))
             ELSE half

Sha1H0 ==
    << << 26437, 8961 >>, << 61389, 43913 >>, << 39098, 56574 >>,
       << 4146, 21622 >>, << 50130, 57840 >> >>

\* the hash h after a block whose 80 rounds ended in the state s
Sha1Add(h, s) ==
    << WAdd(h[1], s[1]), WAdd(h[2], s[2]), WAdd(h[3], s[3]),
       WAdd(h[4], s[4]), WAdd(h[5], s[5]) >>

RECURSIVE Sha1Blocks(_, _, _)
\* the hash after the blocks from offset o on
Sha1Blocks(h, bytes, o) ==
    IF o >= Len(bytes) THEN h
    ELSE Sha1Blocks(Sha1Add(h, Sha1Rounds(h, Schedule(BlockWords(bytes, o),
                                                       64), 0, 80)),
                    bytes, o + 64)

\* the 20 bytes of the hash h, each word big-endian
Sha1Digest(h) ==
    [k \in 1..20 |->
        LET x == h[((k - 1) \div 4) + 1]
            r == (k - 1) % 4
        IN  IF r = 0 THEN x[1] \div 256
            ELSE IF r = 1 THEN x[1] % 256
            ELSE IF r = 2 THEN x[2] \div 256
            ELSE x[2] % 256]

\* the 20 bytes of the digest
Sha1(msg) == Sha1Digest(Sha1Blocks(Sha1H0, Sha1Pad(msg), 0))

\* "ABCDEFGHIJKLMNOPQRSTUVWXYZabcdefghijklmnopqrstuvwxyz0123456789+/"
Base64Char(v) ==
    IF v < 26 THEN 65 + v
    ELSE IF v < 52 THEN 97 + (v - 26)
    ELSE IF v < 62 THEN 48 + (v - 52)
    ELSE IF v = 62 THEN 43
    ELSE 47

RECURSIVE Base64(_)
\* base64::encode: the standard alphabet, padded with "="
Base64(bytes) ==
    IF Len(bytes) = 0 THEN << >>
    ELSE IF Len(bytes) = 1 THEN
        << Base64Char(bytes[1] \div 4), Base64Char((bytes[1] % 4) * 16),
           61, 61 >>
    ELSE IF Len(bytes) = 2 THEN
        << Base64Char(bytes[1] \div 4),
           Base64Char((bytes[1] % 4) * 16 + (bytes[2] \div 16)),
           Base64Char((bytes[2] % 16) * 4), 61 >>
    ELSE
        << Base64Char(bytes[1] \div 4),
           Base64Char((bytes[1] % 4) * 16 + (bytes[2] \div 16)),
           Base64Char((bytes[2] % 16) * 4 + (bytes[3] \div 64)),
           Base64Char(bytes[3] % 64) >>
        \o Base64(SubSeq(bytes, 4, Len(bytes)))

\* base64::encode(Sha1::digest(plain_text)).  Its values on the two keys the
\* source quotes, "s3pPLMBiTxaQ9kYGzzhZRbK+xOo=" (line 29) and
\* "EK2cqLXRG/oxQwrUdEVXGrPDBuA=" (line 300), are tabulated to save their
\* computation; C12 checks the table against Base64(Sha1(..)).
Sha1Base64(plain_text) ==
    IF plain_text = KeyRfc \o rfc_defined_uuid THEN
    << 115, 51, 112, 80, 76, 77, 66, 105, 84, 120, 97, 81, 57, 107, 89, 71,
    122, 122, 104, 90, 82, 98, 75, 43, 120, 79, 111, 61 >>
    ELSE IF plain_text = KeyDoc \o rfc_defined_uuid THEN
    << 69, 75, 50, 99, 113, 76, 88, 82, 71, 47, 111, 120, 81, 119, 114, 85,
    100, 69, 86, 88, 71, 114, 80, 68, 66, 117, 65, 61 >>
    ELSE Base64(Sha1(plain_text))


\* "HTTP/1.1 101 OK\r\nUpgrade: websocket\r\nConnection: Upgrade\r\n
\*  Sec-WebSocket-Accept: "
ResponseHead ==
    << 72, 84, 84, 80, 47, 49, 46, 49, 32, 49, 48, 49, 32, 79, 75, 13, 10,
       85, 112, 103, 114, 97, 100, 101, 58, 32, 119, 101, 98, 115, 111, 99,
       107, 101, 116, 13, 10, 67, 111, 110, 110, 101, 99, 116, 105, 111,
       110, 58, 32, 85, 112, 103, 114, 97, 100, 101, 13, 10, 83, 101, 99,
       45, 87, 101, 98, 83, 111, 99, 107, 101, 116, 45, 65, 99, 99, 101,
       112, 116, 58, 32 >>

\* a response whose token is the digest of the key alone, without the GUID
HandshakeResponseNoGuid(sec_websocket_key) ==
    ResponseHead \o Sha1Base64(sec_websocket_key) \o << 13, 10, 13, 10 >>

\* the response of format!, as bytes
HandshakeResponse(sec_websocket_key) ==
    ResponseHead \o Sha1Base64(sec_websocket_key \o rfc_defined_uuid)
        \o << 13, 10, 13, 10 >>

\* the handshake branch up to the response: Panic when a header line has no
\* ":" (values[1]) or no key was found (sec_websocket_key.unwrap())
Handshake(buffer) ==
    LET r == ParseRequest(buffer)
    IN  IF r.panic THEN Panic
        ELSE IF r.val.sec_websocket_key = None THEN Panic
        ELSE Ok(HandshakeResponse(unwrap(r.val.sec_websocket_key)))


(***************************************************************************)
(* State.                                                                  *)
(*   pc            where main is: "accept" (listener.incoming), "read"     *)
(*                 (stream.read), "process" (the rest of the loop body),   *)
(*                 "aborted" (a panic ended the process); "off" in         *)
(*                 SpecCodec                                               *)
(*   buffer        main's buffer, declared before the accept loop          *)
(*   is_websocket  main's flag, declared per connection                    *)
(*   out           the writes that succeeded on the current connection,    *)
(*                 in order, each the bytes of one stream.write            *)
(*   reads         the reads that returned Ok on the current connection    *)
(*   rx            the bytes the last read delivered                       *)
(*   ev            what the last step was                                  *)
(*   cstage, cframe, cwire, cdecoded   SpecCodec: a frame, the result of   *)
(*                 to_bytes on it, the result of Frame::from on the bytes  *)
(***************************************************************************)
VARIABLES pc, buffer, is_websocket, out, reads, rx, ev,
          rxlog,
          cstage, cframe, cwire, cdecoded, ctrail,
          hstage, hbuf, hres

vars == << pc, buffer, is_websocket, out, reads, rx, ev, rxlog,
           cstage, cframe, cwire, cdecoded, ctrail,
           hstage, hbuf, hres >>

\* rxlog is a history variable: what each read of the current connection
\* delivered, in order
serverVars == << pc, buffer, is_websocket, out, reads, rx, ev, rxlog >>
codecVars == << cstage, cframe, cwire, cdecoded, ctrail >>
hsVars == << hstage, hbuf, hres >>

(***************************************************************************)
(* What a client may send in one read.                                     *)
(***************************************************************************)
CRLF == << 13, 10 >>

\* "GET /\r\n"
RequestLine == << 71, 69, 84, 32, 47, 13, 10 >>

\* "Sec-WebSocket-Key: "
HdrKey == << 83, 101, 99, 45, 87, 101, 98, 83, 111, 99, 107, 101, 116, 45,
             75, 101, 121, 58, 32 >>

\* "sec-websocket-key:"
HdrKeyLower == << 115, 101, 99, 45, 119, 101, 98, 115, 111, 99, 107, 101,
                  116, 45, 107, 101, 121, 58 >>

\* a request with the RFC's key
ReqRfc == RequestLine \o HdrKey \o KeyRfc \o CRLF \o CRLF

\* "PUT /\r\nUpgrade: x\r\n" and the other key, its header name in lower case
ReqDoc ==
    << 80, 85, 84, 32, 47, 13, 10, 85, 112, 103, 114, 97, 100, 101, 58, 32,
       120, 13, 10 >> \o HdrKeyLower \o KeyDoc \o CRLF \o CRLF

\* "GET /\r\nHost: x\r\n\r\n": no key
ReqNoKey == RequestLine \o << 72, 111, 115, 116, 58, 32, 120 >> \o CRLF \o CRLF

\* the request line alone: a request cut short
ReqLineOnly == RequestLine

\* "GET /\r\nHost\r\n\r\n": a header line without ":"
ReqNoColon == RequestLine \o << 72, 111, 115, 116 >> \o CRLF \o CRLF

\* the key only after the blank line
ReqKeyAfterBlank == RequestLine \o CRLF \o HdrKey \o KeyRfc \o CRLF

Requests == {ReqRfc, ReqDoc, ReqNoKey, ReqLineOnly, ReqNoColon, ReqKeyAfterBlank}

\* Text "hi", masked with key 1 2 3 4
WireTextHi == << 129, 130, 1, 2, 3, 4, 105, 107 >>
\* Text "a", unmasked
WireTextA == << 129, 1, 97 >>
\* Close, masked, empty
WireClose == << 136, 128, 1, 2, 3, 4 >>
\* Ping, Pong, Continuation, Binary
WirePing == << 137, 0 >>
WirePong == << 138, 0 >>
WireContinuation == << 128, 0 >>
WireBinary == << 130, 1, 0 >>
\* opcode nibble 3
WireBadOpcode == << 131, 0 >>
\* Text declaring 5 bytes, 1 delivered
WireShort == << 129, 5, 97 >>
\* Text declaring 65535 bytes in the 16-bit form
WireLong == << 129, 126, 255, 255 >>

WireFrames == {WireTextHi, WireTextA, WireClose, WirePing, WirePong,
               WireContinuation, WireBinary, WireBadOpcode, WireShort, WireLong}

\* a read may also return Ok(0)
Deliveries == Requests \cup WireFrames \cup {<<>>}

(***************************************************************************)
(* The server.                                                             *)
(***************************************************************************)
Init ==
    /\ pc = "accept"
    /\ buffer = [i \in 1..BufSize |-> 0]
    /\ is_websocket = FALSE
    /\ out = <<>>
    /\ reads = 0
    /\ rx = <<>>
    /\ ev = "start"
    /\ rxlog = <<>>
    /\ cstage = "off"
    /\ cframe = FrameNew("Text", None)
    /\ cwire = Panic
    /\ cdecoded = Panic
    /\ ctrail = <<>>
    /\ hstage = "off"
    /\ hbuf = <<>>
    /\ hres = Panic

\* an accept that leaves the flag of the previous connection as it is
AcceptKeepFlag ==
    /\ pc = "accept"
    /\ pc' = "read"
    /\ out' = <<>>
    /\ reads' = 0
    /\ rx' = <<>>
    /\ rxlog' = <<>>
    /\ ev' = "accept"
    /\ UNCHANGED << buffer, is_websocket, codecVars, hsVars >>

\* listener.incoming() yields a stream
Accept ==
    /\ pc = "accept"
    /\ pc' = "read"
    /\ is_websocket' = FALSE
    /\ out' = <<>>
    /\ reads' = 0
    /\ rx' = <<>>
    /\ rxlog' = <<>>
    /\ ev' = "accept"
    /\ UNCHANGED << buffer, codecVars, hsVars >>

\* listener.incoming() yields Err: stream.unwrap() panics
AcceptErr ==
    /\ pc = "accept"
    /\ pc' = "aborted"
    /\ ev' = "accept_err"
    /\ UNCHANGED << buffer, is_websocket, out, reads, rx, rxlog, codecVars, hsVars >>

\* stream.read(&mut buffer) returns Ok(n): the first n bytes are replaced
Read ==
    /\ pc = "read"
    /\ reads < MaxReads
    /\ \E m \in Deliveries :
          /\ Len(m) <= BufSize
          /\ buffer' = m \o SubSeq(buffer, Len(m) + 1, BufSize)
          /\ rx' = m
          /\ rxlog' = Append(rxlog, m)
    /\ reads' = reads + 1
    /\ pc' = "process"
    /\ ev' = "read"
    /\ UNCHANGED << is_websocket, out, codecVars, hsVars >>

\* stream.read returns Err: break
ReadErr ==
    /\ pc = "read"
    /\ pc' = "accept"
    /\ ev' = "read_err"
    /\ UNCHANGED << buffer, is_websocket, out, reads, rx, rxlog, codecVars, hsVars >>

\* the handshake branch panics before it writes
HandshakePanic ==
    /\ pc = "process"
    /\ ~is_websocket
    /\ Handshake(buffer).panic
    /\ pc' = "aborted"
    /\ ev' = "handshake_panic"
    /\ UNCHANGED << buffer, is_websocket, out, reads, rx, rxlog, codecVars, hsVars >>

\* a handshake that sets the flag and never writes the response
HandshakeOkNoResponse ==
    /\ pc = "process"
    /\ ~is_websocket
    /\ ~Handshake(buffer).panic
    /\ is_websocket' = TRUE
    /\ pc' = "read"
    /\ ev' = "handshake"
    /\ UNCHANGED << buffer, out, reads, rx, rxlog, codecVars, hsVars >>

\* the handshake branch writes the response; is_websocket = true
HandshakeOk ==
    /\ pc = "process"
    /\ ~is_websocket
    /\ ~Handshake(buffer).panic
    /\ out' = Append(out, Handshake(buffer).val)
    /\ is_websocket' = TRUE
    /\ pc' = "read"
    /\ ev' = "handshake"
    /\ UNCHANGED << buffer, reads, rx, rxlog, codecVars, hsVars >>

\* stream.write(response.as_bytes()) returns Err: unwrap panics
HandshakeWriteErr ==
    /\ pc = "process"
    /\ ~is_websocket
    /\ ~Handshake(buffer).panic
    /\ pc' = "aborted"
    /\ ev' = "write_err"
    /\ UNCHANGED << buffer, is_websocket, out, reads, rx, rxlog, codecVars, hsVars >>

\* Frame::from(&buffer[..]) panics
DecodePanic ==
    /\ pc = "process"
    /\ is_websocket
    /\ FrameFrom(buffer).panic
    /\ pc' = "aborted"
    /\ ev' = "decode_panic"
    /\ UNCHANGED << buffer, is_websocket, out, reads, rx, rxlog, codecVars, hsVars >>

\* the response of the Text branch, as written
TextResponse(frame) ==
    to_bytes(FrameNew("Text", Some(echo(frame.payload)))).val

\* the response of the Close branch, as written
CloseResponse == to_bytes(FrameNew("Close", None)).val

\* a Text branch that replies once
TextEchoOnce ==
    /\ pc = "process"
    /\ is_websocket
    /\ ~FrameFrom(buffer).panic
    /\ FrameFrom(buffer).val.opcode = "Text"
    /\ out' = Append(out, TextResponse(FrameFrom(buffer).val))
    /\ pc' = "read"
    /\ ev' = "text"
    /\ UNCHANGED << buffer, is_websocket, reads, rx, rxlog, codecVars, hsVars >>

\* the Text branch, both writes Ok
TextEcho ==
    /\ pc = "process"
    /\ is_websocket
    /\ ~FrameFrom(buffer).panic
    /\ FrameFrom(buffer).val.opcode = "Text"
    /\ LET response == TextResponse(FrameFrom(buffer).val)
       IN  out' = out \o << response, response >>
    /\ pc' = "read"
    /\ ev' = "text"
    /\ UNCHANGED << buffer, is_websocket, reads, rx, rxlog, codecVars, hsVars >>

\* the Text branch, the first or the second write Err: unwrap panics
TextWriteErr ==
    /\ pc = "process"
    /\ is_websocket
    /\ ~FrameFrom(buffer).panic
    /\ FrameFrom(buffer).val.opcode = "Text"
    /\ LET response == TextResponse(FrameFrom(buffer).val)
       IN  \/ out' = out
           \/ out' = Append(out, response)
    /\ pc' = "aborted"
    /\ ev' = "write_err"
    /\ UNCHANGED << buffer, is_websocket, reads, rx, rxlog, codecVars, hsVars >>

\* a Close branch without its break
CloseReplyNoBreak ==
    /\ pc = "process"
    /\ is_websocket
    /\ ~FrameFrom(buffer).panic
    /\ FrameFrom(buffer).val.opcode = "Close"
    /\ out' = Append(out, CloseResponse)
    /\ pc' = "read"
    /\ ev' = "close"
    /\ UNCHANGED << buffer, is_websocket, reads, rx, rxlog, codecVars, hsVars >>

\* the Close branch, the write Ok: break
CloseReply ==
    /\ pc = "process"
    /\ is_websocket
    /\ ~FrameFrom(buffer).panic
    /\ FrameFrom(buffer).val.opcode = "Close"
    /\ out' = Append(out, CloseResponse)
    /\ pc' = "accept"
    /\ ev' = "close"
    /\ UNCHANGED << buffer, is_websocket, reads, rx, rxlog, codecVars, hsVars >>

\* the Close branch, the write Err: unwrap panics
CloseWriteErr ==
    /\ pc = "process"
    /\ is_websocket
    /\ ~FrameFrom(buffer).panic
    /\ FrameFrom(buffer).val.opcode = "Close"
    /\ pc' = "aborted"
    /\ ev' = "write_err"
    /\ UNCHANGED << buffer, is_websocket, out, reads, rx, rxlog, codecVars, hsVars >>

\* an unsupported opcode skipped: the loop goes on to the next read
TodoSkip ==
    /\ pc = "process"
    /\ is_websocket
    /\ ~FrameFrom(buffer).panic
    /\ FrameFrom(buffer).val.opcode \notin {"Text", "Close"}
    /\ pc' = "read"
    /\ ev' = "todo"
    /\ UNCHANGED << buffer, is_websocket, out, reads, rx, rxlog, codecVars, hsVars >>

\* any other opcode: todo!
Todo ==
    /\ pc = "process"
    /\ is_websocket
    /\ ~FrameFrom(buffer).panic
    /\ FrameFrom(buffer).val.opcode \notin {"Text", "Close"}
    /\ pc' = "aborted"
    /\ ev' = "todo"
    /\ UNCHANGED << buffer, is_websocket, out, reads, rx, rxlog, codecVars, hsVars >>

Next ==
    \/ Accept
    \/ AcceptErr
    \/ Read
    \/ ReadErr
    \/ HandshakePanic
    \/ HandshakeOk
    \/ HandshakeWriteErr
    \/ DecodePanic
    \/ TextEcho
    \/ TextWriteErr
    \/ CloseReply
    \/ CloseWriteErr
    \/ Todo

Spec == Init /\ [][Next]_vars


(***************************************************************************)
(* The codec on its own: to_bytes on a frame, Frame::from on the bytes     *)
(* (or on a raw buffer).                                                   *)
(***************************************************************************)
\* payload bytes and masking keys of the enumerated frames
PayloadAlphabet == {16, 32, 255}
MaskingKeys == {<< 1, 2, 3, 4 >>, << 255, 0, 170, 85 >>}

\* the payloads up to MaxLen, and one longer than a key
SmallPayloads ==
    UNION {[1..n -> PayloadAlphabet] : n \in 0..MaxLen}
        \cup {<< 16, 32, 48, 64, 80, 96 >>}

\* the payload lengths around the two thresholds of the length field
BoundaryLens == {125, 126, 127, 65535, 65536}

\* a payload of n bytes
LongPayload(n) == [i \in 1..n |-> (7 * i) % 256]

\* the frames with payload.len() == payload_len and a key iff mask
ValidFrames ==
    {[fin |-> h[1], rsv1 |-> h[2], rsv2 |-> h[3], rsv3 |-> h[4],
      opcode |-> o, mask |-> k # None, payload_len |-> Len(p),
      masking_key |-> k, payload |-> p] :
        h \in [1..4 -> BOOLEAN], o \in Opcode,
        k \in {None} \cup {Some(m) : m \in MaskingKeys}, p \in SmallPayloads}
    \cup
    {[fin |-> TRUE, rsv1 |-> FALSE, rsv2 |-> FALSE, rsv3 |-> FALSE,
      opcode |-> "Binary", mask |-> k # None, payload_len |-> n,
      masking_key |-> k, payload |-> LongPayload(n)] :
        k \in {None, Some(<< 1, 2, 3, 4 >>)}, n \in BoundaryLens}

\* frames whose masking_key presence disagrees with mask
MismatchedFrames ==
    {[fin |-> TRUE, rsv1 |-> FALSE, rsv2 |-> FALSE, rsv3 |-> FALSE,
      opcode |-> o, mask |-> k = None, payload_len |-> Len(p),
      masking_key |-> k, payload |-> p] :
        o \in Opcode, k \in {None} \cup {Some(m) : m \in MaskingKeys},
        p \in SmallPayloads}

\* raw buffers handed to Frame::from: every first byte, and short buffers
RawBuffers ==
    {<< b, 0 >> : b \in Byte}
        \cup {<<>>, << 129 >>, << 129, 5, 97 >>, << 129, 126, 0 >>,
              << 129, 126, 0, 2, 97, 98 >>, << 129, 130, 1, 2, 3 >>,
              << 129, 127, 0, 0, 0, 0, 0, 0, 0, 1, 97 >>,
              << 129, 127, 0, 0, 0, 0, 0, 0, 0, 1, 97, 98 >>,
              << 129, 126, 1, 0, 97 >>,
              << 129, 127, 128, 0, 0, 0, 0, 0, 0, 1, 97 >>}

\* bytes that may follow a frame in a buffer: a zero, two bytes, a frame
Trailers == {<< 0 >>, << 255, 129 >>, << 129, 1, 97 >>}

InitCodec ==
    /\ pc = "off"
    /\ buffer = [i \in 1..BufSize |-> 0]
    /\ is_websocket = FALSE
    /\ out = <<>>
    /\ reads = 0
    /\ rx = <<>>
    /\ ev = "start"
    /\ rxlog = <<>>
    /\ cdecoded = Panic
    /\ ctrail = <<>>
    /\ hstage = "off"
    /\ hbuf = <<>>
    /\ hres = Panic
    /\ \/ /\ cstage = "frame"
          /\ cframe \in ValidFrames
          /\ cwire = Panic
       \/ /\ cstage = "xframe"
          /\ cframe \in MismatchedFrames
          /\ cwire = Panic
       \/ /\ cstage = "raw"
          /\ cframe = FrameNew("Text", None)
          /\ cwire \in {Ok(b) : b \in RawBuffers}

\* frame.to_bytes()
Encode ==
    /\ cstage \in {"frame", "xframe"}
    /\ cwire' = to_bytes(cframe)
    /\ cstage' = IF cstage = "frame" THEN "encoded" ELSE "xencoded"
    /\ UNCHANGED << cframe, cdecoded, ctrail, serverVars, hsVars >>

\* Frame::from(&bytes[..])
Decode ==
    /\ cstage \in {"encoded", "xencoded", "raw"}
    /\ ~cwire.panic
    /\ cdecoded' = FrameFrom(cwire.val)
    /\ cstage' = CASE cstage = "encoded" -> "decoded"
                    [] cstage = "xencoded" -> "xdecoded"
                    [] cstage = "raw" -> "rawdecoded"
    /\ UNCHANGED << cframe, cwire, ctrail, serverVars, hsVars >>

\* Frame::from on the bytes of a frame followed by other bytes
DecodeTrailing ==
    /\ cstage = "encoded"
    /\ ~cwire.panic
    /\ \E t \in Trailers :
          /\ ctrail' = t
          /\ cdecoded' = FrameFrom(cwire.val \o t)
    /\ cstage' = "tdecoded"
    /\ UNCHANGED << cframe, cwire, serverVars, hsVars >>

NextCodec ==
    \/ Encode
    \/ Decode
    \/ DecodeTrailing

SpecCodec == InitCodec /\ [][NextCodec]_vars

\* the server, and the codec on its own
InitFrames == Init \/ InitCodec

NextFrames == Next \/ NextCodec

SpecFrames == InitFrames /\ [][NextFrames]_vars

(***************************************************************************)
(* The handshake branch on its own: one read into a zeroed buffer, then    *)
(* the parse and the response.                                             *)
(***************************************************************************)
\* the size of the zeroed buffer the request is read into
HsBufSize == 144

\* "GET / HTTP/1.1\r\n", "PUT / HTTP/1.1\r\n"
HsRequestLines ==
    {<< 71, 69, 84, 32, 47, 32, 72, 84, 84, 80, 47, 49, 46, 49, 13, 10 >>,
     << 80, 85, 84, 32, 47, 32, 72, 84, 84, 80, 47, 49, 46, 49, 13, 10 >>}

\* no Upgrade header, "Upgrade: websocket\r\n", "Upgrade: x\r\n"
HsUpgrade ==
    {<<>>,
     << 85, 112, 103, 114, 97, 100, 101, 58, 32, 119, 101, 98, 115, 111, 99,
     107, 101, 116, 13, 10 >>,
     << 85, 112, 103, 114, 97, 100, 101, 58, 32, 120, 13, 10 >>}

\* no Connection header, "Connection: Upgrade\r\n", "Connection: close\r\n"
HsConnection ==
    {<<>>,
     << 67, 111, 110, 110, 101, 99, 116, 105, 111, 110, 58, 32, 85, 112,
     103, 114, 97, 100, 101, 13, 10 >>,
     << 67, 111, 110, 110, 101, 99, 116, 105, 111, 110, 58, 32, 99, 108,
     111, 115, 101, 13, 10 >>}

\* no version header, "Sec-WebSocket-Version: 13\r\n",
\* "Sec-WebSocket-Version: 0\r\n"
HsVersion ==
    {<<>>,
     << 83, 101, 99, 45, 87, 101, 98, 83, 111, 99, 107, 101, 116, 45, 86,
     101, 114, 115, 105, 111, 110, 58, 32, 49, 51, 13, 10 >>,
     << 83, 101, 99, 45, 87, 101, 98, 83, 111, 99, 107, 101, 116, 45, 86,
     101, 114, 115, 105, 111, 110, 58, 32, 48, 13, 10 >>}

HsKeys == {KeyRfc, KeyDoc}

\* the key header, its name in three spellings and its value padded or not:
\* "Sec-WebSocket-Key: k\r\n", "sec-websocket-key:k\r\n",
\* "SEC-WEBSOCKET-KEY:  k \r\n"
HsKeyHeaders(k) ==
    {HdrKey \o k \o CRLF,
     HdrKeyLower \o k \o CRLF,
     << 83, 69, 67, 45, 87, 69, 66, 83, 79, 67, 75, 69, 84, 45, 75, 69, 89,
     58, 32, 32 >>
        \o k \o << 32, 13, 10 >>}

\* the requests whose header lines all are "Name: value", with a key header
\* before the blank line
HsRequest(l, u, c, v, kh) == l \o u \o c \o v \o kh \o CRLF

HsGoodRequests(k) ==
    {HsRequest(l, u, c, v, kh) :
        l \in HsRequestLines, u \in HsUpgrade, c \in HsConnection,
        v \in HsVersion, kh \in HsKeyHeaders(k)}

\* the buffer after the request was read into a zeroed one
HsBuffer(req) == req \o [i \in 1..(HsBufSize - Len(req)) |-> 0]

InitHandshake ==
    /\ pc = "off"
    /\ buffer = [i \in 1..BufSize |-> 0]
    /\ is_websocket = FALSE
    /\ out = <<>>
    /\ reads = 0
    /\ rx = <<>>
    /\ ev = "start"
    /\ rxlog = <<>>
    /\ cstage = "off"
    /\ cframe = FrameNew("Text", None)
    /\ cwire = Panic
    /\ cdecoded = Panic
    /\ ctrail = <<>>
    /\ hstage = "request"
    /\ hbuf \in {HsBuffer(r) :
                    r \in Requests \cup UNION {HsGoodRequests(k) : k \in HsKeys}}
    /\ hres = Panic

\* the handshake branch of main on the buffer
Negotiate ==
    /\ hstage = "request"
    /\ hres' = Handshake(hbuf)
    /\ hstage' = "answered"
    /\ UNCHANGED << hbuf, serverVars, codecVars >>

SpecHandshake == InitHandshake /\ [][Negotiate]_vars

\* the server, and the handshake branch on its own
InitUpgrade == Init \/ InitHandshake

NextUpgrade == Next \/ Negotiate

SpecUpgrade == InitUpgrade /\ [][NextUpgrade]_vars


(***************************************************************************)
(* Properties of the codec, checked under SpecCodec.                       *)
(***************************************************************************)
\* the bytes before the masking key: 2, and the extended length
HeaderLen(n) == IF n < 126 THEN 2 ELSE IF n < 65536 THEN 4 ELSE 10

\* c is a XOR b, bit by bit
IsXor(c, a, b) == \A k \in 0..7 : Bit(c, k) = (Bit(a, k) + Bit(b, k)) % 2

\* C1: round trip.  For every valid frame f (payload.len() == payload_len,
\* a masking key iff mask, any opcode, any fin and rsv bits), decoding
\* to_bytes(f) succeeds and gives a frame equal to f in every field.
C1_RoundTrip ==
    cstage = "decoded" =>
        /\ ~cwire.panic
        /\ ~cdecoded.panic
        /\ cdecoded.val.fin = cframe.fin
        /\ cdecoded.val.rsv1 = cframe.rsv1
        /\ cdecoded.val.rsv2 = cframe.rsv2
        /\ cdecoded.val.rsv3 = cframe.rsv3
        /\ cdecoded.val.opcode = cframe.opcode
        /\ cdecoded.val.mask = cframe.mask
        /\ cdecoded.val.payload_len = cframe.payload_len
        /\ cdecoded.val.masking_key = cframe.masking_key
        /\ cdecoded.val.payload = cframe.payload

\* a masked frame with reserved bits set and a payload longer than its key
\* has made the round trip
C1_Witness ==
    /\ cstage = "decoded"
    /\ cframe.mask
    /\ cframe.rsv2
    /\ ~cframe.fin
    /\ cframe.opcode = "Pong"
    /\ cframe.payload = << 16, 32, 48, 64, 80, 96 >>
    /\ cdecoded = Ok(cframe)

\* C6: opcode mapping.  Each of the nibbles 0, 1, 2, 8, 9, 10 maps to an
\* Opcode of its own, which maps back to the nibble; a buffer whose first
\* byte has any other low nibble is rejected by the decoder, which returns
\* no frame for it; the first byte written for a frame carries its opcode's
\* nibble.
C6_OpcodeMapping ==
    /\ \A n \in {0, 1, 2, 8, 9, 10} :
          /\ OpcodeFromU8(n) \in Opcode
          /\ U8FromOpcode(OpcodeFromU8(n)) = n
          /\ \A m \in {0, 1, 2, 8, 9, 10} :
                m # n => OpcodeFromU8(m) # OpcodeFromU8(n)
    /\ (cstage = "rawdecoded" /\ Len(cwire.val) = 2) =>
          LET n == At(cwire.val, 0) % 16
          IN  IF n \in {0, 1, 2, 8, 9, 10}
              THEN /\ ~cdecoded.panic
                   /\ cdecoded.val.opcode \in Opcode
                   /\ U8FromOpcode(cdecoded.val.opcode) = n
              ELSE cdecoded = Panic
    /\ cstage \in {"encoded", "decoded"} =>
          /\ At(cwire.val, 0) % 16 \in {0, 1, 2, 8, 9, 10}
          /\ OpcodeFromU8(At(cwire.val, 0)) = cframe.opcode

\* the decoder has rejected a first byte with nibble 3
C6_Witness ==
    /\ cstage = "rawdecoded"
    /\ cwire = Ok(<< 131, 0 >>)
    /\ cdecoded = Panic

\* C7: length encoding.  to_bytes writes n in the 7-bit field when n < 126,
\* 126 and n as 2 big-endian bytes when 126 <= n < 65536, 127 and n as 8
\* big-endian bytes when n >= 65536; the decoder reads the same n back.
C7_LengthEncoding ==
    /\ cstage \in {"encoded", "decoded"} =>
          LET n == cframe.payload_len
              w == cwire.val
              sel == At(w, 1) % 128
          IN  /\ n < 126 => sel = n
              /\ (126 <= n /\ n < 65536) =>
                    /\ sel = 126
                    /\ At(w, 2) * 256 + At(w, 3) = n
              /\ n >= 65536 =>
                    /\ sel = 127
                    /\ \A k \in 2..5 : At(w, k) = 0
                    /\ At(w, 6) * 16777216 + At(w, 7) * 65536
                           + At(w, 8) * 256 + At(w, 9) = n
              /\ Len(w) = HeaderLen(n) + (IF cframe.mask THEN 4 ELSE 0) + n
    /\ cstage = "decoded" =>
          /\ ~cdecoded.panic
          /\ cdecoded.val.payload_len = cframe.payload_len

\* a masked payload of 126 bytes, the first length that is not literal, went
\* out in the 16-bit form and came back
C7_Witness ==
    /\ cstage = "decoded"
    /\ cframe.mask
    /\ cframe.payload_len = 126
    /\ SubSeq(cwire.val, 2, 4) = << 254, 0, 126 >>
    /\ Len(cwire.val) = 134
    /\ ~cdecoded.panic
    /\ cdecoded.val.payload_len = 126
    /\ Len(cdecoded.val.payload) = 126

\* C8: masking.  With mask set, to_bytes writes the 4-byte key after the
\* length field and then payload[i] XOR masking_key[i mod 4] for every i;
\* with mask clear it writes no key and the payload as it is; the decoder's
\* XOR with the same key gives the payload back.
C8_Masking ==
    /\ cstage \in {"encoded", "decoded"} =>
          LET w == cwire.val
              h == HeaderLen(cframe.payload_len)
              n == Len(cframe.payload)
          IN  IF cframe.mask
              THEN /\ At(w, 1) >= 128
                   /\ Len(w) = h + 4 + n
                   /\ Slice(w, h, h + 4) = unwrap(cframe.masking_key)
                   /\ \A i \in 0..(n - 1) :
                         IsXor(At(w, h + 4 + i), At(cframe.payload, i),
                               At(unwrap(cframe.masking_key), i % 4))
              ELSE /\ At(w, 1) < 128
                   /\ Len(w) = h + n
                   /\ Slice(w, h, h + n) = cframe.payload
    /\ cstage = "decoded" =>
          /\ ~cdecoded.panic
          /\ cdecoded.val.payload = cframe.payload
          /\ cdecoded.val.masking_key = cframe.masking_key

\* key 1 2 3 4 and payload 0x10 0x20: 0x11 0x22 on the wire, and back
C8_Witness ==
    /\ cstage = "decoded"
    /\ cframe.masking_key = Some(<< 1, 2, 3, 4 >>)
    /\ cframe.payload = << 16, 32 >>
    /\ Slice(cwire.val, 2, 8) = << 1, 2, 3, 4, 17, 34 >>
    /\ cdecoded.val.payload = << 16, 32 >>


(***************************************************************************)
(* Properties of the server, checked under Spec.                           *)
(***************************************************************************)
\* the loop body is about to decode buffer as a frame of this opcode
Decoded(opcode) ==
    /\ pc = "process"
    /\ is_websocket
    /\ ~FrameFrom(buffer).panic
    /\ FrameFrom(buffer).val.opcode = opcode

\* " (echoed)"
EchoSuffix == << 32, 40, 101, 99, 104, 111, 101, 100, 41 >>

\* an unmasked Text frame with fin set and payload p ++ " (echoed)", on the
\* wire (the payload is shorter than 126 bytes)
EchoFrame(p) == << 129, Len(p) + 9 >> \o p \o EchoSuffix

\* C2: Text dispatch.  When the server, Open, has decoded a Text frame with
\* payload p, its next step either writes exactly two frames, each the
\* unmasked Text frame with fin set and payload p ++ " (echoed)", and goes
\* back to read with the connection still Open, or ends the process on a
\* failed write after none or one of them.
C2_TextDispatch ==
    [][Decoded("Text") =>
          LET r == EchoFrame(FrameFrom(buffer).val.payload)
          IN  \/ /\ pc' = "read"
                 /\ out' = out \o << r, r >>
                 /\ is_websocket'
                 /\ reads' = reads
              \/ /\ pc' = "aborted"
                 /\ ev' = "write_err"
                 /\ out' \in {out, Append(out, r)}]_vars

\* the masked Text frame "hi" was answered by two frames "hi (echoed)"
C2_Witness ==
    /\ pc = "read"
    /\ ev = "text"
    /\ is_websocket
    /\ rx = WireTextHi
    /\ Len(out) = 3
    /\ out[2] = << 129, 11, 104, 105, 32, 40, 101, 99, 104, 111, 101, 100, 41 >>
    /\ out[3] = out[2]

\* C3: Close.  When the server, Open, has decoded a Close frame, its next
\* step writes exactly one frame, the empty unmasked Close frame 0x88 0x00,
\* and leaves the session loop (or ends the process on the failed write,
\* nothing written); once a session is over, nothing is read or written on
\* its connection: the only step that reads again is the accept of a new
\* connection.
C3_CloseScenario ==
    [][/\ Decoded("Close") =>
             \/ /\ pc' = "accept"
                /\ ev' = "close"
                /\ out' = Append(out, << 136, 0 >>)
             \/ /\ pc' = "aborted"
                /\ ev' = "write_err"
                /\ out' = out
       /\ pc \in {"accept", "aborted"} =>
             \/ /\ out' = out
                /\ reads' = reads
                /\ buffer' = buffer
                /\ pc' \in {"accept", "aborted"}
             \/ /\ pc = "accept"
                /\ ev' = "accept"
                /\ out' = <<>>
                /\ reads' = 0
                /\ buffer' = buffer]_vars

\* a session ended by the Close exchange
C3_Witness ==
    /\ pc = "accept"
    /\ ev = "close"
    /\ rx = WireClose
    /\ Len(out) = 2
    /\ out[2] = << 136, 0 >>

\* the bytes are an upgrade response: "HTTP/1.1 101 OK\r\n" first, a blank
\* line last
IsUpgradeResponse(b) ==
    /\ Len(b) > 21
    /\ SubSeq(b, 1, 17)
          = << 72, 84, 84, 80, 47, 49, 46, 49, 32, 49, 48, 49, 32, 79, 75, 13, 10 >>
    /\ SubSeq(b, Len(b) - 3, Len(b)) = << 13, 10, 13, 10 >>

C4_Inv ==
    /\ ev = "accept" => (~is_websocket /\ out = <<>> /\ reads = 0)
    /\ reads = 0 => ~is_websocket
    /\ (pc = "process" /\ reads = 1) => ~is_websocket
    /\ out # <<>> => IsUpgradeResponse(out[1])
    /\ is_websocket => out # <<>>

C4_Step ==
    /\ (pc = "process" /\ reads = 1) =>
          ev' \in {"handshake", "handshake_panic", "write_err"}
    /\ (~is_websocket /\ is_websocket') =>
          /\ ev' = "handshake"
          /\ reads = 1
          /\ out = <<>>
          /\ Len(out') = 1
          /\ IsUpgradeResponse(out'[1])
    /\ (is_websocket /\ ~is_websocket') => (pc = "accept" /\ ev' = "accept")

\* C4: handshake gating.  A connection starts with is_websocket false; its
\* first read is processed by the handshake branch, never decoded as a
\* frame; the first bytes written on a connection are the 101 response;
\* is_websocket becomes true only in the step that writes that response,
\* which is the step after the connection's first read (so at most once per
\* connection), and becomes false again only by the accept of a new
\* connection.
C4_HandshakeGating == []C4_Inv /\ [][C4_Step]_vars

\* the RFC's request was answered by the 101 response with the RFC's token
C4_Witness ==
    /\ pc = "read"
    /\ is_websocket
    /\ reads = 1
    /\ rx = ReqRfc
    /\ out = << ResponseHead
                \o << 115, 51, 112, 80, 76, 77, 66, 105, 84, 120, 97, 81, 57,
                      107, 89, 71, 122, 122, 104, 90, 82, 98, 75, 43, 120, 79,
                      111, 61 >>
                \o << 13, 10, 13, 10 >> >>

\* the request has a Sec-WebSocket-Key header line before its first blank
\* line (the request line is not a header line)
RequestHasKey(req) ==
    LET ls == lines(from_utf8_lossy(req))
    IN  \E i \in 2..Len(ls) :
           /\ \A j \in 2..i : ls[j] # <<>>
           /\ to_ascii_lowercase(trim(split(ls[i], 58)[1])) = StrSecWebsocketKey

\* C5: handshake failure.  After the step that processed a connection's
\* first read, if that read delivered a request with no Sec-WebSocket-Key
\* header before its first blank line, then nothing was written, the
\* connection is not Open and the session is over.
C5_NoKeyNoUpgrade ==
    (reads = 1 /\ pc # "process" /\ rx \in Requests /\ ~RequestHasKey(rx)) =>
        /\ out = <<>>
        /\ ~is_websocket
        /\ pc = "aborted"

\* C9: transport errors are local to the connection.  After a failed read
\* or a failed write the process is alive, at the accept of the next
\* connection.
C9_TransportErrorsLocal ==
    ev \in {"read_err", "write_err"} => pc = "accept"

C10_Inv ==
    ev \in {"close", "read_err"} => (pc = "accept" /\ ENABLED Accept)

C10_Step ==
    ev' = "accept" =>
        /\ pc = "accept"
        /\ ev \in {"start", "close", "read_err"}
        /\ pc' = "read"
        /\ ~is_websocket'
        /\ out' = <<>>
        /\ reads' = 0

\* C10: sequential service.  A connection is accepted only at the accept
\* point, which the server reaches at start and when the previous session
\* left its loop by the Close exchange or by a failed read; after such an
\* ending the server is at the accept point and able to accept; the accepted
\* connection starts with is_websocket false, nothing read and nothing
\* written, whatever the previous connection ended in.
C10_SequentialService == []C10_Inv /\ [][C10_Step]_vars

\* a connection accepted after one that was Open and ended with Close
C10_Witness ==
    /\ ev = "accept"
    /\ pc = "read"
    /\ ~is_websocket
    /\ SubSeq(buffer, 1, 6) = WireClose


(***************************************************************************)
(* C11: the handshake validates only the key.  A request whose header      *)
(* lines all are "Name: value" and that has a Sec-WebSocket-Key header     *)
(* (its name in any case) before the blank line gets the 101 response,     *)
(* whatever its method and whether the Upgrade, Connection and             *)
(* Sec-WebSocket-Version headers are absent or carry any value; and in the *)
(* session the response is written and the connection becomes Open (a      *)
(* failed write aside).                                                    *)
(***************************************************************************)
\* the buffer holds one of the enumerated requests with a key
HoldsGoodRequest(b) ==
    \E k \in HsKeys : \E r \in HsGoodRequests(k) : b = HsBuffer(r)

C11_Inv ==
    (hstage = "answered" /\ HoldsGoodRequest(hbuf))
        => (~hres.panic /\ IsUpgradeResponse(hres.val))

C11_Step ==
    (pc = "process" /\ ~is_websocket /\ rx \in {ReqRfc, ReqDoc})
        => \/ /\ is_websocket'
              /\ pc' = "read"
              /\ Len(out') = 1
              /\ IsUpgradeResponse(out'[1])
           \/ /\ pc' = "aborted"
              /\ ev' = "write_err"

C11_KeyOnly == []C11_Inv /\ [][C11_Step]_vars

\* PUT, "Upgrade: x", "Connection: close", version 0 and the key header in
\* upper case with a padded value: answered with the 101 response
C11_Witness ==
    /\ hstage = "answered"
    /\ \E l \in HsRequestLines, u \in HsUpgrade, c \in HsConnection,
          v \in HsVersion, kh \in HsKeyHeaders(KeyDoc) :
          /\ l[1] = 80
          /\ Len(u) = 12
          /\ Len(c) = 19
          /\ Len(v) = 26
          /\ kh[2] = 69
          /\ hbuf = HsBuffer(HsRequest(l, u, c, v, kh))
    /\ ~hres.panic
    /\ IsUpgradeResponse(hres.val)

(***************************************************************************)
(* C12: the accept token.  The Sec-WebSocket-Accept value of the response  *)
(* is base64(SHA-1(key ++ GUID)) of the trimmed key of the request: for    *)
(* the RFC's key it is "s3pPLMBiTxaQ9kYGzzhZRbK+xOo=", for the key of the  *)
(* request quoted in main it is "EK2cqLXRG/oxQwrUdEVXGrPDBuA=", whatever   *)
(* surrounds the key in its header line.                                   *)
(***************************************************************************)
\* "s3pPLMBiTxaQ9kYGzzhZRbK+xOo="
TokenRfc ==
    << 115, 51, 112, 80, 76, 77, 66, 105, 84, 120, 97, 81, 57, 107, 89, 71,
    122, 122, 104, 90, 82, 98, 75, 43, 120, 79, 111, 61 >>

\* "EK2cqLXRG/oxQwrUdEVXGrPDBuA="
TokenDoc ==
    << 69, 75, 50, 99, 113, 76, 88, 82, 71, 47, 111, 120, 81, 119, 114, 85,
    100, 69, 86, 88, 71, 114, 80, 68, 66, 117, 65, 61 >>

\* "Sec-WebSocket-Accept: "
StrAcceptHeader ==
    << 83, 101, 99, 45, 87, 101, 98, 83, 111, 99, 107, 101, 116, 45, 65, 99,
    99, 101, 112, 116, 58, 32 >>

\* the value of the Sec-WebSocket-Accept line of a response: what stands
\* between "Sec-WebSocket-Accept: " and the next "\r"
AcceptValue(response) ==
    LET starts == {i \in 1..Len(response) :
                      /\ i + Len(StrAcceptHeader) - 1 <= Len(response)
                      /\ SubSeq(response, i, i + Len(StrAcceptHeader) - 1)
                            = StrAcceptHeader}
        from == (CHOOSE i \in starts : TRUE) + Len(StrAcceptHeader)
    IN  IF starts = {} THEN <<>>
        ELSE SubSeq(response, from, IndexOf(response, 13, from) - 1)

C12_AcceptToken ==
    /\ hstage = "answered" =>
          /\ (\E r \in HsGoodRequests(KeyRfc) : hbuf = HsBuffer(r))
                => /\ ~hres.panic
                   /\ AcceptValue(hres.val) = TokenRfc
                   /\ AcceptValue(hres.val)
                         = Base64(Sha1(KeyRfc \o rfc_defined_uuid))
          /\ (\E r \in HsGoodRequests(KeyDoc) : hbuf = HsBuffer(r))
                => /\ ~hres.panic
                   /\ AcceptValue(hres.val) = TokenDoc
                   /\ AcceptValue(hres.val)
                         = Base64(Sha1(KeyDoc \o rfc_defined_uuid))
    /\ (ev = "handshake" /\ rx = ReqRfc) => AcceptValue(out[1]) = TokenRfc
    /\ (ev = "handshake" /\ rx = ReqDoc) => AcceptValue(out[1]) = TokenDoc

\* the RFC's key, padded with blanks in its header line, answered
C12_Witness ==
    /\ hstage = "answered"
    /\ \E r \in HsGoodRequests(KeyRfc) :
          /\ hbuf = HsBuffer(r)
          /\ SubSeq(r, Len(r) - 4, Len(r)) = << 32, 13, 10, 13, 10 >>
    /\ ~hres.panic
    /\ AcceptValue(hres.val) = TokenRfc

(***************************************************************************)
(* C13: no state is shared across connections.  What the server makes of   *)
(* a read (the handshake outcome before the upgrade, the decoded frame     *)
(* after it, and so every byte it writes) is a function of the bytes       *)
(* received on the same connection: it is what the server would make of    *)
(* them had the buffer been zeroed when the connection was accepted.       *)
(***************************************************************************)
RECURSIVE OwnBytes(_, _)
\* the buffer as the reads of log alone leave it, from b
OwnBytes(log, b) ==
    IF log = <<>> THEN b
    ELSE OwnBytes(Tail(log), Head(log) \o SubSeq(b, Len(Head(log)) + 1, Len(b)))

\* the buffer holding only what this connection received
OwnBuffer == OwnBytes(rxlog, [i \in 1..BufSize |-> 0])

C13_NoSharedState ==
    pc = "process" =>
        IF is_websocket THEN FrameFrom(buffer) = FrameFrom(OwnBuffer)
        ELSE Handshake(buffer) = Handshake(OwnBuffer)

(***************************************************************************)
(* C14: one dispatch per received frame.  The Text replies written on a    *)
(* connection are at most twice the Text frames received on it after the   *)
(* upgrade, and a read that returned 0 bytes is followed by no dispatch    *)
(* and no write.                                                           *)
(***************************************************************************)
\* the frames of out (all but the handshake response) with opcode Text
TextReplies ==
    Cardinality({i \in 2..Len(out) : out[i][1] % 16 = 1})

\* the reads after the first that delivered a Text frame
TextFramesReceived ==
    Cardinality({i \in 2..Len(rxlog) :
                    rxlog[i] # <<>> /\ rxlog[i][1] % 16 = 1})

C14_OneDispatch ==
    /\ TextReplies <= 2 * TextFramesReceived
    /\ (ev \in {"text", "close", "todo"}) => rx # <<>>

(***************************************************************************)
(* C15: unsupported opcodes are fatal.  When the frame decoded on an Open  *)
(* connection has an opcode other than Text and Close (Continuation,       *)
(* Binary, Ping, Pong), the server writes nothing and aborts; once aborted *)
(* it takes no further step: no read, no accept.                           *)
(***************************************************************************)
C15_Step ==
    /\ (\E o \in Opcode \ {"Text", "Close"} : Decoded(o))
          => (pc' = "aborted" /\ ev' = "todo" /\ out' = out /\ reads' = reads)
    /\ pc = "aborted" => UNCHANGED vars

C15_UnsupportedFatal == [][C15_Step]_vars

\* aborted on a Binary frame, with the handshake response the only write
C15_Witness ==
    /\ pc = "aborted"
    /\ ev = "todo"
    /\ SubSeq(buffer, 1, 3) = WireBinary
    /\ Len(out) = 1

(***************************************************************************)
(* C16: mask/key consistency is enforced.  Encoding a frame whose          *)
(* masking_key presence disagrees with mask (mask without a key, or a key  *)
(* without mask) ends in an error and produces no bytes; every frame that  *)
(* decode returns has a masking_key exactly when mask is true.             *)
(***************************************************************************)
C16_MaskKeyConsistency ==
    /\ cstage \in {"xencoded", "xdecoded"} => cwire.panic
    /\ (cstage \in {"decoded", "xdecoded", "rawdecoded"} /\ ~cdecoded.panic)
          => (cdecoded.val.mask <=> cdecoded.val.masking_key # None)

(***************************************************************************)
(* C17: short buffers are rejected.  Decoding a buffer shorter than its    *)
(* 2 header bytes, the extended length (0, 2 or 8 bytes), the 4 key bytes  *)
(* of a masked frame and the declared payload length ends in an error, no  *)
(* frame is returned; in the session a frame whose declared length does    *)
(* not fit the read buffer is not dispatched: the server aborts without a  *)
(* write.                                                                  *)
(***************************************************************************)
\* the bytes of the extended length field the second byte announces
ExtendedLen(b) ==
    IF b[2] % 128 = 126 THEN 2 ELSE IF b[2] % 128 = 127 THEN 8 ELSE 0

\* the declared payload length of a buffer that holds its length field;
\* -1 when the 64-bit form declares 2^31 bytes or more
DeclaredLen(b) ==
    IF b[2] % 128 < 126 THEN b[2] % 128
    ELSE IF b[2] % 128 = 126 THEN b[3] * 256 + b[4]
    ELSE IF \E k \in 3..6 : b[k] # 0 THEN -1
    ELSE IF b[7] >= 128 THEN -1
    ELSE ((b[7] * 256 + b[8]) * 256 + b[9]) * 256 + b[10]

\* the buffer is shorter than the frame its header declares
IsShort(b) ==
    \/ Len(b) < 2
    \/ Len(b) < 2 + ExtendedLen(b)
    \/ DeclaredLen(b) < 0
    \/ Len(b) < 2 + ExtendedLen(b) + (IF b[2] >= 128 THEN 4 ELSE 0)
                  + DeclaredLen(b)

C17_Inv ==
    (cstage \in {"decoded", "xdecoded", "rawdecoded"} /\ IsShort(cwire.val))
        => cdecoded.panic

C17_Step ==
    (pc = "process" /\ is_websocket /\ IsShort(buffer))
        => (pc' = "aborted" /\ ev' = "decode_panic" /\ out' = out)

C17_ShortRejected == []C17_Inv /\ [][C17_Step]_vars

\* a buffer of 3 bytes that declares a payload of 5: an error
C17_Witness ==
    /\ cstage = "rawdecoded"
    /\ cwire.val = << 129, 5, 97 >>
    /\ cdecoded.panic

(***************************************************************************)
(* C18: every frame the server writes (whatever it wrote after the         *)
(* handshake response) has fin = 1, rsv1 = rsv2 = rsv3 = 0, opcode Text or *)
(* Close, mask = 0 and so no masking key, and declares exactly the number  *)
(* of payload bytes that follow its header.                                *)
(***************************************************************************)
C18_ServerFrames ==
    /\ Len(out) >= 1 => IsUpgradeResponse(out[1])
    /\ \A i \in 2..Len(out) :
          /\ Len(out[i]) >= 2
          /\ out[i][1] \in {128 + 1, 128 + 8}
          /\ out[i][2] < 128
          /\ Len(out[i]) >= 2 + ExtendedLen(out[i])
          /\ Len(out[i]) = 2 + ExtendedLen(out[i]) + DeclaredLen(out[i])

\* a Text frame echoed twice and a Close frame answered
C18_Witness ==
    /\ Len(out) = 4
    /\ out[2] = EchoFrame(<< 104, 105 >>)
    /\ out[3] = out[2]
    /\ out[4] = << 136, 0 >>

(***************************************************************************)
(* C19: exact consumption.  The encoding of a valid frame has exactly      *)
(* 2 + (0, 2 or 8) + (4 if mask) + payload_len bytes, and decode reads     *)
(* exactly those: with any bytes appended to the encoding, decode returns  *)
(* the frame it returns for the encoding alone.                            *)
(***************************************************************************)
C19_ExactConsumption ==
    /\ cstage \in {"encoded", "decoded", "tdecoded"} =>
          Len(cwire.val)
              = 2 + (IF cframe.payload_len <= 125 THEN 0
                     ELSE IF cframe.payload_len <= 65535 THEN 2 ELSE 8)
                  + (IF cframe.mask THEN 4 ELSE 0) + cframe.payload_len
    /\ cstage = "tdecoded" =>
          /\ ctrail # <<>>
          /\ ~cdecoded.panic
          /\ cdecoded = FrameFrom(cwire.val)

\* a masked frame of 126 payload bytes decoded with a frame's bytes after it
C19_Witness ==
    /\ cstage = "tdecoded"
    /\ ctrail = << 129, 1, 97 >>
    /\ cframe.mask
    /\ cframe.payload_len = 126
    /\ Len(cwire.val) = 134
    /\ cdecoded = Ok(cframe)

(***************************************************************************)
(* C20: the decode length invariant.  Whenever decode returns a frame, the *)
(* frame's payload has payload_len bytes, and payload_len is the value of  *)
(* the buffer's length field (7-bit, 16-bit or 64-bit form).               *)
(***************************************************************************)
\* the buffer the codec has decoded
DecodedBuffer == IF cstage = "tdecoded" THEN cwire.val \o ctrail ELSE cwire.val

C20_DecodeLength ==
    (cstage \in {"decoded", "xdecoded", "rawdecoded", "tdecoded"}
        /\ ~cdecoded.panic)
        => /\ Len(cdecoded.val.payload) = cdecoded.val.payload_len
           /\ cdecoded.val.payload_len = DeclaredLen(DecodedBuffer)

\* a raw buffer in the 64-bit form with a byte after the payload, decoded
C20_Witness ==
    /\ cstage = "rawdecoded"
    /\ cwire.val = << 129, 127, 0, 0, 0, 0, 0, 0, 0, 1, 97, 98 >>
    /\ ~cdecoded.panic
    /\ cdecoded.val.payload = << 97 >>
    /\ cdecoded.val.payload_len = 1

=========================================================================
